---- MODULE Spec2Model ----
(***************************************************************************)
(* A model of CPSO/chaosGen.py: the chaotic number generators (Logistic,   *)
(* Tent, Lorenz) behind ChaosGenerator, the class-level Lorenz.lims cache  *)
(* and the ChaosGenerator.cgen registry used by getGen.                    *)
(*                                                                         *)
(* Numbers.  A real v is held as the integer floor(v * Scale) (fixed       *)
(* point); every product and quotient of the source is computed on these   *)
(* integers and rounded down.  The one non-finite float the source can     *)
(* hand out, NaN (0/0 in Lorenz.evolve), is the value NaN below.           *)
(* Arrays.  A numpy array of shape s is a function from Indices(s), the    *)
(* 0-based index tuples of s, to numbers; cgens is a function from the     *)
(* slot numbers 0..gens-1 to arrays of shape gshape.                       *)
(***************************************************************************)
EXTENDS Integers, Naturals, Sequences, FiniteSets, TLC

VARIABLES
    gen,        \* the generator object in use (its fields), if there is one
    lims,       \* the class attribute Lorenz.lims: params -> limits(3,2)
    simRuns,    \* for each params, how many times setLimits ran odeint
    boxes,      \* for each params, the limits its generators have read
    built,      \* how many generator objects have been constructed
    producers,  \* the producer functions getGen has handed back
    snap,       \* the last array getCgens returned, and the chaosPoints calls since
    last,       \* what the last operation was given, did and returned
    ops         \* number of operations performed so far

vars == <<gen, lims, simRuns, boxes, built, producers, snap, last, ops>>

-----------------------------------------------------------------------------
(* Bounds of the model *)

Scale == 1000000      \* fixed-point unit: the integer that stands for 1.0
MaxP == 2             \* largest number of particles oshape[0] tried
MaxOps == 3           \* operations per run
SimSteps == 2         \* integration steps of the bounding-box run

(* Program constants *)

GENS == 2             \* gens=2
R == 4                \* Logistic r=4
MuNum == 49999        \* Tent mu=0.49999 = MuNum / MuDen
MuDen == 100000
EpsDen == 100000      \* Lorenz.evolve eps = 1e-5 = 1 / EpsDen
HDen == 100           \* Lorenz h=0.01 = 1 / HDen
CDIMS == 3            \* the three coordinates of the Lorenz flow

-----------------------------------------------------------------------------
(* Fixed-point arithmetic *)

Abs(a) == IF a < 0 THEN 0 - a ELSE a

\* <<q, r>> with a * b = q * c + r and 0 <= r < c, for a, b >= 0 and c > 0,
\* computed without forming a * b.
RECURSIVE MulQR(_, _, _)
MulQR(a, b, c) ==
    IF b = 0 THEN <<0, 0>>
    ELSE LET half == MulQR(a, b \div 2, c)
             r2   == 2 * half[2] + (IF b % 2 = 1 THEN a % c ELSE 0)
             qa   == IF b % 2 = 1 THEN a \div c ELSE 0
         IN  <<2 * half[1] + qa + (r2 \div c), r2 % c>>

\* floor(a * b / c) for integers a, b and c > 0
MulDiv(a, b, c) ==
    LET qr == MulQR(Abs(a), Abs(b), c)
    IN  IF (a >= 0) = (b >= 0) \/ a = 0 \/ b = 0 THEN qr[1]
        ELSE IF qr[2] = 0 THEN 0 - qr[1]
        ELSE 0 - qr[1] - 1

\* the product of two reals
Times(a, b) == MulDiv(a, b, Scale)

NaN == 0 - 1

-----------------------------------------------------------------------------
(* numpy arrays *)

RECURSIVE Size(_)
Size(shape) == IF shape = <<>> THEN 1 ELSE Head(shape) * Size(Tail(shape))

RECURSIVE Indices(_)
Indices(shape) ==
    IF shape = <<>> THEN {<<>>}
    ELSE {<<i>> \o t : i \in 0..(Head(shape) - 1), t \in Indices(Tail(shape))}

\* position of index ix in the row-major order of an array of this shape
RECURSIVE Flat(_, _)
Flat(ix, shape) ==
    IF ix = <<>> THEN 0
    ELSE Head(ix) * Size(Tail(shape)) + Flat(Tail(ix), Tail(shape))

Front(s) == SubSeq(s, 1, Len(s) - 1)

\* np.array([a_0, ..., a_{n-1}]) : a new leading axis over a list of arrays
Stack(list) ==
    IF list = <<>> THEN <<>>
    ELSE [ix \in {<<i>> \o t : i \in 0..(Len(list) - 1), t \in DOMAIN list[1]}
            |-> list[Head(ix) + 1][Tail(ix)]]

-----------------------------------------------------------------------------
(* np.random: the n-th number drawn after a given state of the generator.  *)
(* A state rng = <<base, stride>> stands for one of a few streams of       *)
(* numbers in [0, 1); the streams cover constant and varying arrays.       *)

Eps == Scale \div EpsDen
Mu == MulDiv(MuNum, Scale, MuDen)

SeedVals == <<0, Eps - 1, (3 * Scale) \div 4, Mu>>

Rngs == {<<b, s>> : b \in 0..(Len(SeedVals) - 1), s \in {0, 1}}
LorRngs == {<<0, 0>>, <<1, 0>>, <<2, 1>>}

Sample(rng, n) == SeedVals[((rng[1] + n * rng[2]) % Len(SeedVals)) + 1]

-----------------------------------------------------------------------------
(* class ChaosGenerator *)

None == <<>>          \* the default gshape=None

\* ChaosGenerator.__init__ : the fields every generator has.  rng is the
\* state of np.random when the constructor runs.
ChaosGeneratorInit(oshape, gshape, cascade, gens, rng) ==
    LET s  == IF gshape = None THEN oshape ELSE gshape
        gs == IF cascade THEN Tail(s) ELSE s
    IN  [oshape  |-> oshape,
         gshape  |-> gs,
         cascade |-> cascade,
         gens    |-> gens,
         cgens   |-> [i \in 0..(gens - 1) |->
                        [ix \in Indices(gs) |->
                            Sample(rng, i * Size(gs) + Flat(ix, gs))]]]

\* getCgens : np.copy(self.cgens), an array equal to the state and detached
\* from it
getCgens(g) == g.cgens

-----------------------------------------------------------------------------
(* class Logistic *)

Logistic(oshape, cascade, r, gens, rng) ==
    [type |-> "Log", r |-> r]
        @@ ChaosGeneratorInit(oshape, None, cascade, gens, rng)

\* lambda r,x : r*x*(1-x)
LogisticMap(r, x) == MulDiv(r * x, Scale - x, Scale)

\* Logistic.evolve with the np.copy left out: ret is then a view of
\* self.cgens[gind], which the assignment overwrites in place
LogisticEvolveNoCopy(g, gind) ==
    LET new == [ix \in DOMAIN g.cgens[gind] |->
                    LogisticMap(g.r, g.cgens[gind][ix])]
    IN  [ret |-> new, g |-> [g EXCEPT !.cgens[gind] = new]]

\* Logistic.evolve : [ret |-> the value returned, g |-> the object after]
LogisticEvolve(g, gind) ==
    LET ret == g.cgens[gind]
        new == [ix \in DOMAIN g.cgens[gind] |->
                    LogisticMap(g.r, g.cgens[gind][ix])]
    IN  [ret |-> ret, g |-> [g EXCEPT !.cgens[gind] = new]]

-----------------------------------------------------------------------------
(* class Tent *)

Tent(oshape, cascade, mu, gens, rng) ==
    [type |-> "Tent", mu |-> mu]
        @@ ChaosGeneratorInit(oshape, None, cascade, gens, rng)

\* lambda mu,x : np.where(x <= mu, x/mu, (1-x)/(1-mu))
TentMap(mu, x) ==
    IF x <= mu THEN MulDiv(x, Scale, mu)
    ELSE MulDiv(Scale - x, Scale, Scale - mu)

\* Tent.evolve with the assignment to self.cgens[gind] left out
TentEvolveNoStore(g, gind) == [ret |-> g.cgens[gind], g |-> g]

\* Tent.evolve
TentEvolve(g, gind) ==
    LET ret == g.cgens[gind]
        new == [ix \in DOMAIN g.cgens[gind] |->
                    TentMap(g.mu, g.cgens[gind][ix])]
    IN  [ret |-> ret, g |-> [g EXCEPT !.cgens[gind] = new]]

-----------------------------------------------------------------------------
(* class Lorenz.  A point of the flow is a function 0..2 -> number; params *)
(* is <<sigma, beta, rho>>; limits(3,2) is a function 0..2 -> (0..1 ->     *)
(* number) holding [min, max] per coordinate.                              *)

Coords == 0..(CDIMS - 1)

ParamsDefault == <<10 * Scale, (8 * Scale) \div 3, 28 * Scale>>
ParamsFlat    == <<0, (8 * Scale) \div 3, 28 * Scale>>   \* sigma = 0: xdot = 0
ParamSets     == {ParamsDefault, ParamsFlat}

\* Lorenz.lorenz : dXdt at X
lorenz(X, sigma, beta, rho) ==
    LET x == X[0]
        y == X[1]
        z == X[2]
    IN  [j \in Coords |->
            CASE j = 0 -> Times(sigma, y - x)
              [] j = 1 -> Times(x, rho - z) - y
              [] j = 2 -> Times(x, y) - Times(beta, z)]

\* scipy odeint(Lorenz.lorenz, X0, t, args=params) for n + 1 equally spaced
\* times t, the step being 1/hden: the sequence of the n + 1 points, each
\* one explicit Euler step from the one before.
RECURSIVE odeint(_, _, _, _)
odeint(X0, n, hden, params) ==
    IF n = 0 THEN <<X0>>
    ELSE LET s  == odeint(X0, n - 1, hden, params)
             X  == s[Len(s)]
             dX == lorenz(X, params[1], params[2], params[3])
         IN  Append(s, [j \in Coords |-> X[j] + (dX[j] \div hden)])

SetMin(S) == CHOOSE m \in S : \A k \in S : m <= k
SetMax(S) == CHOOSE m \in S : \A k \in S : m >= k

\* [[np.min(s[:,i]), np.max(s[:,i])] for i in [0, 1, 2]]
LimitsOf(s) ==
    [i \in Coords |->
        [c \in 0..1 |-> IF c = 0 THEN SetMin({s[k][i] : k \in DOMAIN s})
                        ELSE SetMax({s[k][i] : k \in DOMAIN s})]]

\* np.random.rand(3) : the starting points tried for the bounding-box run
Point(x, y, z) == [j \in Coords |-> IF j = 0 THEN x ELSE IF j = 1 THEN y ELSE z]
Rand3A == Point(Scale \div 10, (9 * Scale) \div 10, Scale \div 2)
Rand3B == Point((3 * Scale) \div 4, Scale \div 4, Scale \div 10)
Rand3  == {Rand3A, Rand3B}

\* Lorenz.setLimits with the test "params not in Lorenz.lims" left out
setLimitsAlways(lm, params, X0) ==
    [lims |-> [p \in (DOMAIN lm) \cup {params} |->
                 IF p = params
                 THEN LimitsOf(odeint(X0, SimSteps, HDen, params))
                 ELSE lm[p]],
     ran  |-> TRUE]

\* Lorenz.setLimits : [lims |-> Lorenz.lims after, ran |-> odeint was run].
\* X0 is what np.random.rand(3) returns if it is called; the time grid
\* np.linspace(0, 9999, 999999) is cut to SimSteps steps.
setLimits(lm, params, X0) ==
    IF params \notin DOMAIN lm
    THEN [lims |-> [p \in (DOMAIN lm) \cup {params} |->
                      IF p = params
                      THEN LimitsOf(odeint(X0, SimSteps, HDen, params))
                      ELSE lm[p]],
          ran  |-> TRUE]
    ELSE [lims |-> lm, ran |-> FALSE]

\* Lorenz.__init__ : [g |-> the object, lims |-> Lorenz.lims after,
\*                    ran |-> the bounding-box run happened]
Lorenz(lm, oshape, cascade, params, comp, h, gens, rng, X0) ==
    LET base == ChaosGeneratorInit(oshape, oshape \o <<CDIMS>>, cascade, gens, rng)
        sl   == setLimits(lm, params, X0)
        box  == sl.lims[params]
        \* lambda st,mn,mx : mn + (mx - mn)*st
        cg   == [i \in 0..(gens - 1) |->
                   [ix \in Indices(base.gshape) |->
                       LET j == ix[Len(ix)]
                       IN  box[j][0] + Times(box[j][1] - box[j][0], base.cgens[i][ix])]]
    IN  [g    |-> [type |-> "Lor", params |-> params, comp |-> comp, h |-> h]
                    @@ [base EXCEPT !.cgens = cg],
         lims |-> sl.lims,
         ran  |-> sl.ran]

\* Lorenz.evolveT writing self.cgens[i][pt] for every generator i, not only
\* for gind
evolveTAll(g, gind, T) ==
    LET moved == [i \in DOMAIN g.cgens |->
                    [pt \in Indices(Front(g.gshape)) |->
                        LET X == [j \in Coords |-> g.cgens[i][pt \o <<j>>]]
                            s == odeint(X, T, g.h, g.params)
                        IN  s[Len(s)]]]
    IN  [g EXCEPT !.cgens =
            [i \in DOMAIN g.cgens |->
                [ix \in Indices(g.gshape) |-> moved[i][Front(ix)][ix[Len(ix)]]]]]

\* Lorenz.evolveT : the object after
evolveT(g, gind, T) ==
    LET moved == [pt \in Indices(Front(g.gshape)) |->
                    LET X == [j \in Coords |-> g.cgens[gind][pt \o <<j>>]]
                        s == odeint(X, T, g.h, g.params)
                    IN  s[Len(s)]]
    IN  [g EXCEPT !.cgens[gind] =
            [ix \in Indices(g.gshape) |-> moved[Front(ix)][ix[Len(ix)]]]]

\* A float quotient num/den kept exact; den = 0 gives nan (0/0) or +-inf.
IsNaN(q) == q.den = 0 /\ q.num = 0
Less0(q) == ~IsNaN(q) /\ q.num < 0
Gt1(q)   == ~IsNaN(q) /\ ((q.den = 0 /\ q.num > 0) \/ (q.den > 0 /\ q.num > q.den))
ToFixed(q) == IF q.den = 0 THEN NaN ELSE MulDiv(q.num, Scale, q.den)

\* the scaling with the two np.where replacements left out
ScaledNoClamp(st, mn, mx, eps) ==
    ToFixed([num |-> st - mn, den |-> mx - mn])

\* the scaling in Lorenz.evolve of one state value st with limits mn, mx
Scaled(st, mn, mx, eps) ==
    LET n0 == [num |-> st - mn, den |-> mx - mn]        \* (st - mn)/(mx - mn)
        n1 == IF Less0(n0) THEN [num |-> eps, den |-> Scale] ELSE n0
        n2 == IF Gt1(n1) THEN [num |-> Scale - eps, den |-> Scale] ELSE n1
    IN  ToFixed(n2)

\* Lorenz.evolve
LorenzEvolve(g, lm, gind) ==
    LET eps == Eps
        ret == [pt \in Indices(Front(g.gshape)) |->
                   Scaled(g.cgens[gind][pt \o <<g.comp>>],
                          lm[g.params][g.comp][0],
                          lm[g.params][g.comp][1], eps)]
    IN  [ret |-> ret, g |-> evolveT(g, gind, 1)]

-----------------------------------------------------------------------------
(* ChaosGenerator.evolve and ChaosGenerator.chaosPoints *)

\* self.evolve(gind), resolved by the class of the object
evolve(g, lm, gind) ==
    CASE g.type = "Log"  -> LogisticEvolve(g, gind)
      [] g.type = "Tent" -> TentEvolve(g, gind)
      [] g.type = "Lor"  -> LorenzEvolve(g, lm, gind)

\* what one evolve call was given, returned and left behind
Call(g, gind, e) ==
    [gind |-> gind, pre |-> g.cgens, ret |-> e.ret, post |-> e.g.cgens]

\* [self.evolve(gind) for i in range(n)] :
\*   [rets |-> the list, g |-> the object after, calls |-> the evolve calls]
RECURSIVE EvolveLoop(_, _, _, _)
EvolveLoop(g, lm, gind, n) ==
    IF n = 0 THEN [rets |-> <<>>, g |-> g, calls |-> <<>>]
    ELSE LET sofar == EvolveLoop(g, lm, gind, n - 1)
             e     == evolve(sofar.g, lm, gind)
         IN  [rets  |-> Append(sofar.rets, e.ret),
              g     |-> e.g,
              calls |-> Append(sofar.calls, Call(sofar.g, gind, e))]

RECURSIVE chaosPoints(_, _, _)
RECURSIVE GensLoop(_, _, _)
RECURSIVE GensLoopReversed(_, _, _)

\* chaosPoints, with the per-particle loop running over oshape[1] (the
\* dimensions) instead of oshape[0]
chaosPointsPerDim(g, lm, gno) ==
    IF gno # 0
    THEN IF g.cascade
         THEN LET c == EvolveLoop(g, lm, gno - 1, g.oshape[2])
              IN  [ret |-> Stack(c.rets), g |-> c.g, calls |-> c.calls]
         ELSE LET e == evolve(g, lm, gno - 1)
              IN  [ret |-> e.ret, g |-> e.g, calls |-> <<Call(g, gno - 1, e)>>]
    ELSE LET c == GensLoop(g, lm, g.gens)
         IN  [ret |-> Stack(c.rets), g |-> c.g, calls |-> c.calls]

\* ChaosGenerator.chaosPoints(gno) :
\*   [ret |-> the array returned, g |-> the object after,
\*    calls |-> the evolve calls made, in order]
chaosPoints(g, lm, gno) ==
    IF gno # 0
    THEN IF g.cascade
         THEN LET c == EvolveLoop(g, lm, gno - 1, g.oshape[1])
              IN  [ret |-> Stack(c.rets), g |-> c.g, calls |-> c.calls]
         ELSE LET e == evolve(g, lm, gno - 1)
              IN  [ret |-> e.ret, g |-> e.g, calls |-> <<Call(g, gno - 1, e)>>]
    ELSE LET c == GensLoop(g, lm, g.gens)
         IN  [ret |-> Stack(c.rets), g |-> c.g, calls |-> c.calls]

\* the list of chaosPoints(0) built from the last generator down:
\* [self.chaosPoints(gens - i) for i in range(n)]
GensLoopReversed(g, lm, n) ==
    IF n = 0 THEN [rets |-> <<>>, g |-> g, calls |-> <<>>]
    ELSE LET sofar == GensLoopReversed(g, lm, n - 1)
             c     == chaosPoints(sofar.g, lm, g.gens - (n - 1))
         IN  [rets  |-> Append(sofar.rets, c.ret),
              g     |-> c.g,
              calls |-> sofar.calls \o c.calls]

\* [self.chaosPoints(i+1) for i in range(n)]
GensLoop(g, lm, n) ==
    IF n = 0 THEN [rets |-> <<>>, g |-> g, calls |-> <<>>]
    ELSE LET sofar == GensLoop(g, lm, n - 1)
             c     == chaosPoints(sofar.g, lm, n)
         IN  [rets  |-> Append(sofar.rets, c.ret),
              g     |-> c.g,
              calls |-> sofar.calls \o c.calls]

-----------------------------------------------------------------------------
(* The registry ChaosGenerator.cgen and getGen *)

cgen == {"Log", "Lor", "Tent"}

\* getGen(shape, gentype) : the function it returns, which holds shape and
\* gentype and nothing else
getGen(shape, gentype) == [shape |-> shape, gentype |-> gentype]

\* ChaosGenerator.cgen[gentype](s) with every other argument at its default:
\*   [g |-> the new object, lims |-> Lorenz.lims after, ran |-> odeint run]
Construct(gentype, s, lm, rng, X0) ==
    CASE gentype = "Log"  ->
            [g |-> Logistic(s, TRUE, R, GENS, rng), lims |-> lm, ran |-> FALSE]
      [] gentype = "Tent" ->
            [g |-> Tent(s, TRUE, Mu, GENS, rng), lims |-> lm, ran |-> FALSE]
      [] gentype = "Lor"  ->
            Lorenz(lm, s, TRUE, ParamsDefault, 0, HDen, GENS, rng, X0)

\* one call p(i) of a function p that getGen returned:
\*   lambda i : ChaosGenerator.cgen[gentype](s).chaosPoints(i)
Produce(p, lm, i, rng, X0) ==
    IF p.gentype \notin cgen
    THEN [raised |-> "KeyError", key |-> p.gentype, made |-> 0, lims |-> lm,
          ran |-> FALSE, start |-> <<>>, ret |-> <<>>, left |-> <<>>]
    ELSE LET c == Construct(p.gentype, p.shape, lm, rng, X0)
             r == chaosPoints(c.g, c.lims, i)
         IN  [raised |-> "none", key |-> "", made |-> 1, lims |-> c.lims,
              ran |-> c.ran, start |-> c.g.cgens, ret |-> r.ret,
              left |-> r.g.cgens]

-----------------------------------------------------------------------------
(* The state of a process and the operations on it *)

Dims   == {1, 2}
Shapes == {<<p, d>> : p \in 1..MaxP, d \in Dims}

NoGen  == [type |-> "none"]
NoSnap == [taken |-> FALSE, val |-> <<>>, gnos |-> <<>>]
NoLims == <<>>                    \* Lorenz.lims = {}

Idle ==
    [op |-> "init", gno |-> 0, ret |-> <<>>, calls |-> <<>>, before |-> NoGen,
     limsBefore |-> NoLims, prevSnap |-> NoSnap, raised |-> "none", key |-> "",
     start |-> <<>>, prevLeft |-> <<>>, nth |-> 0, builtBefore |-> 0,
     ran |-> FALSE, params |-> <<>>]

NoRuns  == [p \in ParamSets |-> 0]
NoBoxes == [p \in ParamSets |-> {}]

\* the limits a Lorenz object reads when chaosPoints makes it evolve
ReadBy(g, lm, bx) ==
    IF g.type = "Lor" THEN [bx EXCEPT ![g.params] = @ \cup {lm[g.params]}]
    ELSE bx

\* A fresh process in which one generator has just been constructed
InitObject ==
    /\ \E oshape \in Shapes, cascade \in BOOLEAN :
          \/ /\ \E rng \in Rngs : gen = Logistic(oshape, cascade, R, GENS, rng)
             /\ lims = NoLims /\ simRuns = NoRuns /\ boxes = NoBoxes
          \/ /\ \E rng \in Rngs : gen = Tent(oshape, cascade, Mu, GENS, rng)
             /\ lims = NoLims /\ simRuns = NoRuns /\ boxes = NoBoxes
          \/ \E params \in ParamSets, comp \in Coords, rng \in LorRngs, X0 \in {Rand3A} :
                \E c \in {Lorenz(NoLims, oshape, cascade, params, comp, HDen, GENS, rng, X0)} :
                    /\ gen = c.g
                    /\ lims = c.lims
                    /\ simRuns = [NoRuns EXCEPT ![params] = IF c.ran THEN 1 ELSE 0]
                    /\ boxes = [NoBoxes EXCEPT ![params] = {c.lims[params]}]
    /\ built = 1
    /\ producers = <<>>
    /\ snap = NoSnap
    /\ last = Idle
    /\ ops = 0

\* A fresh process: nothing constructed, Lorenz.lims empty
InitProcess ==
    /\ gen = NoGen
    /\ lims = NoLims
    /\ simRuns = NoRuns
    /\ boxes = NoBoxes
    /\ built = 0
    /\ producers = <<>>
    /\ snap = NoSnap
    /\ last = Idle
    /\ ops = 0

\* gen.chaosPoints(gno)
ChaosPointsAct(gno) ==
    /\ ops < MaxOps
    /\ gen.type # "none"
    /\ \E r \in {chaosPoints(gen, lims, gno)} :
           /\ gen' = r.g
           /\ last' = [Idle EXCEPT !.op = "chaosPoints", !.gno = gno,
                                   !.ret = r.ret, !.calls = r.calls,
                                   !.before = gen, !.limsBefore = lims]
    /\ boxes' = ReadBy(gen, lims, boxes)
    /\ snap' = IF snap.taken THEN [snap EXCEPT !.gnos = Append(@, gno)] ELSE snap
    /\ ops' = ops + 1
    /\ UNCHANGED <<lims, simRuns, built, producers>>

\* gen.getCgens()
GetCgensAct ==
    /\ ops < MaxOps
    /\ gen.type # "none"
    /\ last' = [Idle EXCEPT !.op = "getCgens", !.ret = getCgens(gen),
                            !.before = gen, !.prevSnap = snap]
    /\ snap' = [taken |-> TRUE, val |-> getCgens(gen), gnos |-> <<>>]
    /\ ops' = ops + 1
    /\ UNCHANGED <<gen, lims, simRuns, boxes, built, producers>>

\* gen = Lorenz(oshape, cascade, params, comp)
NewLorenz(oshape, cascade, params, comp, rng, X0) ==
    /\ ops < MaxOps
    /\ \E c \in {Lorenz(lims, oshape, cascade, params, comp, HDen, GENS, rng, X0)} :
           /\ gen' = c.g
           /\ lims' = c.lims
           /\ simRuns' = [simRuns EXCEPT ![params] = @ + (IF c.ran THEN 1 ELSE 0)]
           /\ boxes' = [boxes EXCEPT ![params] = @ \cup {c.lims[params]}]
           /\ last' = [Idle EXCEPT !.op = "new", !.limsBefore = lims,
                                   !.ran = c.ran, !.params = params,
                                   !.builtBefore = built]
    /\ built' = built + 1
    /\ snap' = NoSnap
    /\ ops' = ops + 1
    /\ UNCHANGED producers

\* p = ChaosGenerator.getGen(shape, gentype)
GetGenAct(shape, gentype) ==
    /\ ops < MaxOps
    /\ producers' = Append(producers,
                           [fn |-> getGen(shape, gentype), n |-> 0, left |-> <<>>])
    /\ last' = [Idle EXCEPT !.op = "getGen", !.key = gentype,
                            !.builtBefore = built]
    /\ ops' = ops + 1
    /\ UNCHANGED <<gen, lims, simRuns, boxes, built, snap>>

\* p(i) for the k-th function p that getGen returned
CallAct(k, i, rng, X0) ==
    /\ ops < MaxOps
    /\ k \in DOMAIN producers
    /\ \E p \in {producers[k]} : \E r \in {Produce(p.fn, lims, i, rng, X0)} :
           /\ producers' = IF r.raised = "none"
                           THEN [producers EXCEPT ![k] =
                                    [fn |-> p.fn, n |-> p.n + 1, left |-> r.left]]
                           ELSE producers
           /\ lims' = r.lims
           /\ simRuns' = IF r.ran
                         THEN [simRuns EXCEPT ![ParamsDefault] = @ + 1]
                         ELSE simRuns
           /\ boxes' = IF r.raised = "none" /\ p.fn.gentype = "Lor"
                       THEN [boxes EXCEPT ![ParamsDefault] =
                                @ \cup {r.lims[ParamsDefault]}]
                       ELSE boxes
           /\ built' = built + r.made
           /\ last' = [Idle EXCEPT !.op = "call", !.gno = i, !.ret = r.ret,
                                   !.raised = r.raised, !.key = r.key,
                                   !.start = r.start, !.prevLeft = p.left,
                                   !.nth = p.n + 1, !.builtBefore = built,
                                   !.limsBefore = lims, !.ran = r.ran]
    /\ ops' = ops + 1
    /\ UNCHANGED <<gen, snap>>

-----------------------------------------------------------------------------
(* Specifications *)

\* one generator object and the calls of its methods
Next ==
    \/ \E gno \in 0..GENS : ChaosPointsAct(gno)
    \/ GetCgensAct

Spec == InitObject /\ [][Next]_vars

\* a process that constructs Lorenz generators and uses the latest one
CacheRngs == {<<0, 0>>, <<2, 1>>}

NextCache ==
    \/ \E params \in ParamSets, comp \in {0, 1}, rng \in CacheRngs, X0 \in Rand3 :
          NewLorenz(<<2, 1>>, TRUE, params, comp, rng, X0)
    \/ \E gno \in 0..GENS : ChaosPointsAct(gno)

SpecCache == InitProcess /\ [][NextCache]_vars

\* a process that obtains producers from the registry and calls them
Codes == cgen \cup {"Foo"}
RegistryRngs == {<<1, 1>>, <<3, 1>>}

NextRegistry ==
    \/ \E gentype \in Codes : GetGenAct(<<2, 1>>, gentype)
    \/ \E k \in 1..MaxOps, i \in 0..1, rng \in RegistryRngs, X0 \in Rand3 :
          CallAct(k, i, rng, X0)

SpecRegistry == InitProcess /\ [][NextRegistry]_vars

-----------------------------------------------------------------------------
(* Properties.  What the claims speak of, read off the record of the last  *)
(* operation.                                                              *)

\* a[i] : the sub-array of a at leading index i
Entry(a, i) ==
    [ix \in {Tail(t) : t \in {u \in DOMAIN a : Head(u) = i}} |-> a[<<i>> \o ix]]

\* the map f of a Logistic or Tent generator, applied cell by cell
MapImage(g, a) ==
    [ix \in DOMAIN a |-> IF g.type = "Log" THEN LogisticMap(g.r, a[ix])
                         ELSE TentMap(g.mu, a[ix])]

\* one step of the flow from every point of a Lorenz slot
FlowImage(g, a) ==
    [ix \in DOMAIN a |->
        LET X == [j \in Coords |-> a[Front(ix) \o <<j>>]]
            s == odeint(X, 1, g.h, g.params)
        IN  s[2][ix[Len(ix)]]]

\* the state one evolve call leaves in a slot that held a
Stepped(g, a) == IF g.type = "Lor" THEN FlowImage(g, a) ELSE MapImage(g, a)

IsMap(g) == g.type \in {"Log", "Tent"}

ProducedOne == last.op = "chaosPoints" /\ last.gno # 0
ProducedAll == last.op = "chaosPoints" /\ last.gno = 0

\* C1: every evolve call of a Logistic or Tent generator returns the array
\* the slot held before the call, and leaves in the slot the map f applied
\* to that array cell by cell.
C1_EvolveReturnsPreImage ==
    (last.op = "chaosPoints" /\ IsMap(gen)) =>
        \A k \in DOMAIN last.calls :
            LET c == last.calls[k]
            IN  /\ c.gind \in 0..(gen.gens - 1)
                /\ c.ret = c.pre[c.gind]
                /\ c.post[c.gind] = MapImage(gen, c.pre[c.gind])

\* an evolve call on each of the two slots of a Tent generator has moved the
\* slot away from the value it returned
C1_Witness ==
    /\ ProducedAll /\ gen.type = "Tent"
    /\ \A i \in 0..(gen.gens - 1) :
          \E k \in DOMAIN last.calls :
              /\ last.calls[k].gind = i
              /\ last.calls[k].ret # last.calls[k].post[i]

\* C10: chaosPoints(k) with k # 0, and each evolve call it makes, changes
\* slot k-1 only: every other slot holds afterwards the array it held
\* before, and oshape, gshape, cascade, gens and Lorenz.lims are unchanged.
C10_OnlyOneSlotChanges ==
    ProducedOne =>
        /\ \A j \in DOMAIN gen.cgens :
              j # last.gno - 1 => gen.cgens[j] = last.before.cgens[j]
        /\ \A k \in DOMAIN last.calls :
              /\ last.calls[k].gind = last.gno - 1
              /\ \A j \in DOMAIN gen.cgens :
                    j # last.gno - 1 => last.calls[k].post[j] = last.calls[k].pre[j]
        /\ DOMAIN gen.cgens = DOMAIN last.before.cgens
        /\ gen.oshape = last.before.oshape
        /\ gen.gshape = last.before.gshape
        /\ gen.cascade = last.before.cascade
        /\ gen.gens = last.before.gens
        /\ lims = last.limsBefore

\* chaosPoints(1) on a non-cascade Lorenz generator has changed slot 0
C10_Witness ==
    /\ ProducedOne /\ last.gno = 1
    /\ gen.type = "Lor" /\ ~gen.cascade
    /\ gen.cgens[0] # last.before.cgens[0]

\* C3: chaosPoints(0) makes one point-production cycle on every slot (one
\* evolve call in non-cascade mode, oshape[0] in cascade mode), the slots
\* taken in the order 0, 1, ..., gens-1, and entry i of its result is what
\* chaosPoints(i+1) returns from the state held before the call.
C3_AllGeneratorsInOrder ==
    ProducedAll =>
        LET g0 == last.before
            n  == IF g0.cascade THEN g0.oshape[1] ELSE 1
        IN  /\ Len(last.calls) = g0.gens * n
            /\ \A k \in DOMAIN last.calls : last.calls[k].gind = (k - 1) \div n
            /\ \A i \in 0..(g0.gens - 1) :
                  LET one == chaosPoints(g0, last.limsBefore, i + 1)
                  IN  /\ Entry(last.ret, i) = one.ret
                      /\ gen.cgens[i] = one.g.cgens[i]

\* chaosPoints(0) on a cascade generator of two particles, the two entries
\* of the result being different arrays
C3_Witness ==
    /\ ProducedAll /\ gen.cascade /\ gen.oshape[1] = 2
    /\ Entry(last.ret, 0) # Entry(last.ret, 1)
    /\ gen.cgens[0] # last.before.cgens[0]
    /\ gen.cgens[1] # last.before.cgens[1]

\* the array one evolve call returns for a slot that holds a
Exported(g, lm, a) ==
    IF g.type = "Lor"
    THEN [pt \in Indices(Front(g.gshape)) |->
             Scaled(a[pt \o <<g.comp>>], lm[g.params][g.comp][0],
                    lm[g.params][g.comp][1], Eps)]
    ELSE a

CascadeOne == ProducedOne /\ last.before.cascade

LorenzProduced == last.op = "chaosPoints" /\ gen.type = "Lor"

\* the limits of the exported coordinate
CompMin == lims[gen.params][gen.comp][0]
CompMax == lims[gen.params][gen.comp][1]

\* C2 as stated, for every generator type (for Lorenz taken where the
\* limits of the exported coordinate have min < max; min = max is the case
\* of C7): in cascade mode chaosPoints(k), k # 0, makes oshape[0] evolve
\* calls on slot k-1; row 0 of the result is the array the slot held before
\* the call, each later row is the map applied to the row before, and the
\* slot is left holding the map applied to the last row.
C2_RowsAreSuccessiveStates ==
    (CascadeOne /\ (gen.type = "Lor" => CompMin < CompMax)) =>
        LET g0   == last.before
            P    == g0.oshape[1]
            slot == last.gno - 1
        IN  /\ Len(last.calls) = P
            /\ Entry(last.ret, 0) = g0.cgens[slot]
            /\ \A p \in 0..(P - 2) :
                  Entry(last.ret, p + 1) = Stepped(g0, Entry(last.ret, p))
            /\ gen.cgens[slot] = Stepped(g0, Entry(last.ret, P - 1))

\* C2, amended: in cascade mode chaosPoints(k), k # 0, makes oshape[0]
\* evolve calls on slot k-1, each starting from the state the one before
\* left (the first from the state held before the call), each moving the
\* slot by one step of the map or flow, and the slot is left in the state
\* after the last.  Row p of the result is what the p-th call returned: for
\* Logistic and Tent the state that call started from, so that row p+1 is
\* the map applied to row p; for Lorenz the scaled comp coordinate of that
\* state, which is neither the state nor a function of the row before.
C2_RowsFollowTheTrajectory ==
    CascadeOne =>
        LET g0   == last.before
            P    == g0.oshape[1]
            slot == last.gno - 1
        IN  /\ Len(last.calls) = P
            /\ \A p \in 1..P :
                  LET c == last.calls[p]
                  IN  /\ c.gind = slot
                      /\ c.pre = IF p = 1 THEN g0.cgens ELSE last.calls[p - 1].post
                      /\ c.post[slot] = Stepped(g0, c.pre[slot])
                      /\ Entry(last.ret, p - 1) = Exported(g0, lims, c.pre[slot])
            /\ gen.cgens = last.calls[P].post
            /\ IsMap(g0) =>
                  /\ Entry(last.ret, 0) = g0.cgens[slot]
                  /\ \A p \in 0..(P - 2) :
                        Entry(last.ret, p + 1) = MapImage(g0, Entry(last.ret, p))
                  /\ gen.cgens[slot] = MapImage(g0, Entry(last.ret, P - 1))

\* a cascade call on two particles whose two rows differ, on a map
C2_Witness ==
    /\ CascadeOne /\ IsMap(gen)
    /\ gen.oshape[1] = 2 /\ gen.oshape[2] = 2
    /\ Entry(last.ret, 0) # Entry(last.ret, 1)
    /\ gen.cgens[last.gno - 1] # Entry(last.ret, 1)

-----------------------------------------------------------------------------

\* C4 as stated, taken where the limits of the exported coordinate have
\* min < max (min = max is the case of C7): every value a Lorenz generator
\* returns lies in [eps, 1 - eps].
C4_ValuesWithinEps ==
    (LorenzProduced /\ CompMin < CompMax) =>
        \A ix \in DOMAIN last.ret :
            Eps <= last.ret[ix] /\ last.ret[ix] <= Scale - Eps

\* C4, amended: a value returned by Lorenz.evolve is eps when the state
\* value lies below min and 1 - eps when it lies above max; for a state
\* value inside [min, max] with min < max it is the scaled value itself,
\* anywhere in [0, 1]: 0 for a state value of min (a seed of 0.0), 1 for
\* max, and possibly inside (0, eps) or (1 - eps, 1).  With min = max the
\* value for a state value of min is NaN.
C4_ValuesWithinUnitInterval ==
    LorenzProduced =>
        /\ \A k \in DOMAIN last.calls :
              LET c == last.calls[k]
              IN  \A pt \in DOMAIN c.ret :
                    LET st == c.pre[c.gind][pt \o <<gen.comp>>]
                        v  == c.ret[pt]
                    IN  /\ st < CompMin => v = Eps
                        /\ st > CompMax => v = Scale - Eps
                        /\ (CompMin < CompMax /\ CompMin <= st /\ st <= CompMax) =>
                              /\ 0 <= v /\ v <= Scale
                              /\ st = CompMin => v = 0
                              /\ st = CompMax => v = Scale
                        /\ (CompMin = CompMax /\ st = CompMin) => v = NaN
        /\ \A ix \in DOMAIN last.ret :
              \/ 0 <= last.ret[ix] /\ last.ret[ix] <= Scale
              \/ CompMin = CompMax /\ last.ret[ix] = NaN

\* a Lorenz generator with min < max has returned a value strictly between
\* 0 and eps, and a replaced value as well
C4_Witness ==
    /\ LorenzProduced /\ CompMin < CompMax
    /\ \E ix \in DOMAIN last.ret : 0 < last.ret[ix] /\ last.ret[ix] < Eps
    /\ \E ix \in DOMAIN last.ret : last.ret[ix] \in {Eps, Scale - Eps}

\* C7: with min = max for the exported coordinate, the generator has
\* signalled an error by the time chaosPoints is first used, and no
\* chaosPoints call returns NaN.
C7_DegenerateLimitsSignalled ==
    LorenzProduced =>
        /\ CompMin = CompMax => last.raised # "none"
        /\ \A ix \in DOMAIN last.ret : last.ret[ix] # NaN

-----------------------------------------------------------------------------

\* the state that n evolve calls leave in a slot that held a
RECURSIVE SteppedTimes(_, _, _)
SteppedTimes(g, a, n) ==
    IF n = 0 THEN a ELSE Stepped(g, SteppedTimes(g, a, n - 1))

TwoSnapshots == last.op = "getCgens" /\ last.prevSnap.taken

\* C9 as stated: two getCgens results with a chaosPoints call in between
\* differ.
C9_SnapshotsDiffer ==
    (TwoSnapshots /\ last.prevSnap.gnos # <<>>) =>
        last.ret # last.prevSnap.val

\* C9, amended: with one chaosPoints(k) call between two getCgens calls,
\* the second result holds, in every slot the call evolved (all for k = 0,
\* slot k-1 otherwise), the first result moved by one point-production
\* cycle (one step of the map or flow in non-cascade mode, oshape[0] steps
\* in cascade mode), and in every other slot the first result; so the two
\* differ exactly when the cycle moves some cell of an evolved slot, and
\* are equal when every such cell is a fixed point (a Logistic or Tent cell
\* equal to 0).
C9_SnapshotsDifferUnlessFixed ==
    (TwoSnapshots /\ Len(last.prevSnap.gnos) = 1) =>
        LET k      == last.prevSnap.gnos[1]
            n      == IF gen.cascade THEN gen.oshape[1] ELSE 1
            old    == last.prevSnap.val
            moved  == {i \in DOMAIN old :
                         (k = 0 \/ i = k - 1) /\ SteppedTimes(gen, old[i], n) # old[i]}
        IN  /\ \A i \in DOMAIN old :
                  last.ret[i] = IF k = 0 \/ i = k - 1
                                THEN SteppedTimes(gen, old[i], n)
                                ELSE old[i]
            /\ last.ret # old <=> moved # {}

\* two getCgens results around one chaosPoints(1) call on a Tent generator
\* that differ in slot 0 and agree in slot 1
C9_Witness ==
    /\ TwoSnapshots /\ last.prevSnap.gnos = <<1>> /\ gen.type = "Tent"
    /\ last.ret[0] # last.prevSnap.val[0]
    /\ last.ret[1] = last.prevSnap.val[1]

-----------------------------------------------------------------------------

\* C5: the bounding-box run happens once per params, on the first
\* construction that uses it; an entry of Lorenz.lims is never overwritten
\* or removed; and every generator built with a params reads the same
\* limits when it seeds its state and whenever it evolves.
C5_LimitsComputedOnce ==
    /\ [](\A p \in ParamSets :
            /\ simRuns[p] <= 1
            /\ p \in DOMAIN lims <=> simRuns[p] = 1
            /\ boxes[p] \subseteq (IF p \in DOMAIN lims THEN {lims[p]} ELSE {}))
    /\ [](last.op = "new" =>
            (last.ran <=> last.params \notin DOMAIN last.limsBefore))
    /\ [][\A p \in DOMAIN lims : p \in DOMAIN lims' /\ lims'[p] = lims[p]]_vars

\* a third Lorenz object built, the second and third with params already in
\* Lorenz.lims
C5_Witness ==
    /\ last.op = "new" /\ built = 3 /\ ~last.ran
    /\ simRuns[last.params] = 1
    /\ last.params \in DOMAIN last.limsBefore
    /\ Cardinality(DOMAIN lims) = 1

-----------------------------------------------------------------------------

\* C6: the calls of a producer work on one generator: a call after the
\* first starts from the state the call before left, and constructs no
\* generator.
C6_ProducerKeepsItsGenerator ==
    (last.op = "call" /\ last.raised = "none" /\ last.nth >= 2) =>
        /\ last.start = last.prevLeft
        /\ built = last.builtBefore

\* C8: getGen with a code that is not registered raises a lookup error
\* naming the code and hands back no producer.
C8_UnknownCodeRejected ==
    /\ (last.op = "getGen" /\ last.key \notin cgen) => last.raised = "KeyError"
    /\ \A k \in DOMAIN producers : producers[k].fn.gentype \in cgen

====
